---- MODULE Spec2Model ----
(***************************************************************************)
(* The sse-mercure htmx extension (src/sse-mercure/sse-mercure.js): the    *)
(* EventSource lifecycle with reconnection backoff, the registration of    *)
(* sse-swap / hx-trigger / sse-close listeners and the filter matching     *)
(* done by those listeners.  Strings are sequences of one-character        *)
(* strings, so that split / trim / startsWith / includes are computed.     *)
(***************************************************************************)
EXTENDS Integers, Sequences, FiniteSets, TLC

VARIABLES dom, detached, sseEventSource, sources, timers, notified, last, out

vars == <<dom, detached, sseEventSource, sources, timers, notified, last, out>>

(***************************************************************************)
(* Bounds of the model.                                                    *)
(***************************************************************************)
\* transports created on one page, over the whole run
MaxSources == 2
\* host-initiated registrations accepted by one transport
MaxListeners == 2
\* transports created one after the other in the runs of SpecBackoff
MaxAttempts == 10
\* transports created one after the other in the runs of SpecDispatch
MaxReconnects == 3

(***************************************************************************)
(* Strings.                                                                *)
(***************************************************************************)
NoAttr == <<"NULL">>
Star == <<"*">>
Comma == ","
Blank == " "
IdPrefix == <<"i", "d", ":">>
TypePrefix == <<"t", "y", "p", "e", ":">>
DataPrefix == <<"d", "a", "t", "a", ":">>
SsePrefix == <<"s", "s", "e", ":">>
TMessage == <<"m", "e", "s", "s", "a", "g", "e">>
TOpen == <<"o", "p", "e", "n">>
TError == <<"e", "r", "r", "o", "r">>
TPing == <<"p", "i", "n", "g">>
TUpdate == <<"u", "p", "d", "a", "t", "e">>
TNotification == <<"n", "o", "t", "i", "f", "i", "c", "a", "t", "i", "o", "n">>
THeartbeat == <<"h", "e", "a", "r", "t", "b", "e", "a", "t">>
TClose == <<"c", "l", "o", "s", "e">>

\* String.prototype.startsWith
StartsWith(s, p) == Len(s) >= Len(p) /\ SubSeq(s, 1, Len(p)) = p

\* String.prototype.substring(n) / slice(n)
Substring(s, n) == SubSeq(s, n + 1, Len(s))

\* String.prototype.slice(0, n)
Slice0(s, n) == SubSeq(s, 1, IF n < Len(s) THEN n ELSE Len(s))

\* String.prototype.includes
Includes(s, t) == \E i \in 0..(Len(s) - Len(t)) : SubSeq(s, i + 1, i + Len(t)) = t

RECURSIVE TrimLeft(_)
TrimLeft(s) == IF s # <<>> /\ Head(s) = Blank THEN TrimLeft(Tail(s)) ELSE s

RECURSIVE TrimRight(_)
TrimRight(s) ==
    IF s # <<>> /\ s[Len(s)] = Blank THEN TrimRight(SubSeq(s, 1, Len(s) - 1)) ELSE s

\* String.prototype.trim
Trim(s) == TrimRight(TrimLeft(s))

\* String.prototype.split(','): the pieces between the separators, empty ones kept
RECURSIVE SplitFrom(_, _)
SplitFrom(s, cur) ==
    IF s = <<>> THEN <<cur>>
    ELSE IF Head(s) = Comma THEN <<cur>> \o SplitFrom(Tail(s), <<>>)
    ELSE SplitFrom(Tail(s), Append(cur, Head(s)))

Split(s) == SplitFrom(s, <<>>)

\* a JavaScript string used as a condition
Truthy(s) == s # NoAttr /\ s # <<>>

(***************************************************************************)
(* The filter tests made by the three kinds of listener.  An event is a    *)
(* record [id, type, data]: lastEventId, type and data as the listener     *)
(* reads them.                                                             *)
(***************************************************************************)
\* a field the event does not have (undefined)
Absent(v) == v = NoAttr

\* event.lastEventId || ''
MessageId(event) == IF Absent(event.id) \/ event.id = <<>> THEN <<>> ELSE event.id

\* the event type read without the fallback
EventTypeRaw(event) == event.type

\* event.type || 'message'
EventType(event) == IF Absent(event.type) \/ event.type = <<>> THEN TMessage ELSE event.type

\* event.data && event.data.includes(targetData)
DataIncludes(event, targetData) ==
    ~Absent(event.data) /\ event.data # <<>> /\ Includes(event.data, targetData)

\* the test of one filter with the bare value compared to the event type
SwapFilterMatchesByType(filter, event) ==
    IF StartsWith(filter, IdPrefix) THEN MessageId(event) = Substring(filter, 3)
    ELSE IF StartsWith(filter, TypePrefix) THEN EventType(event) = Substring(filter, 5)
    ELSE IF StartsWith(filter, DataPrefix) THEN DataIncludes(event, Substring(filter, 5))
    ELSE EventType(event) = filter

\* one pass of the for loop of messageListener: the test of one trimmed filter
SwapFilterMatches(filter, event) ==
    IF StartsWith(filter, IdPrefix) THEN MessageId(event) = Substring(filter, 3)
    ELSE IF StartsWith(filter, TypePrefix) THEN EventType(event) = Substring(filter, 5)
    ELSE IF StartsWith(filter, DataPrefix) THEN DataIncludes(event, Substring(filter, 5))
    ELSE MessageId(event) = filter

\* shouldProcess with the filters of the list taken as they are written
ShouldProcessUntrimmed(sseSwapAttr, event) ==
    IF sseSwapAttr = Star \/ Trim(sseSwapAttr) = <<>> THEN TRUE
    ELSE LET sseEventFilters == Split(sseSwapAttr)
         IN  \E i \in 1..Len(sseEventFilters) :
                 SwapFilterMatches(sseEventFilters[i], event)

\* shouldProcess of messageListener
ShouldProcess(sseSwapAttr, event) ==
    IF sseSwapAttr = Star \/ Trim(sseSwapAttr) = <<>> THEN TRUE
    ELSE LET sseEventFilters == Split(sseSwapAttr)
         IN  \E i \in 1..Len(sseEventFilters) :
                 SwapFilterMatches(Trim(sseEventFilters[i]), event)

\* a trigger test that knows the prefixed filters only
ShouldTriggerPrefixedOnly(filter, event) ==
    IF filter = Star \/ filter = <<>> THEN TRUE
    ELSE IF StartsWith(filter, IdPrefix) THEN MessageId(event) = Substring(filter, 3)
    ELSE IF StartsWith(filter, TypePrefix) THEN EventType(event) = Substring(filter, 5)
    ELSE IF StartsWith(filter, DataPrefix) THEN DataIncludes(event, Substring(filter, 5))
    ELSE FALSE

\* shouldTrigger of the hx-trigger listener, for one trigger filter
ShouldTrigger(filter, event) ==
    IF filter = Star \/ filter = <<>> THEN TRUE
    ELSE IF StartsWith(filter, IdPrefix) THEN MessageId(event) = Substring(filter, 3)
    ELSE IF StartsWith(filter, TypePrefix) THEN EventType(event) = Substring(filter, 5)
    ELSE IF StartsWith(filter, DataPrefix) THEN DataIncludes(event, Substring(filter, 5))
    ELSE MessageId(event) = filter

\* shouldClose of closeListener
ShouldClose(closeAttribute, event) ==
    IF closeAttribute = Star THEN TRUE
    ELSE IF StartsWith(closeAttribute, IdPrefix)
         THEN MessageId(event) = Substring(closeAttribute, 3)
    ELSE IF StartsWith(closeAttribute, TypePrefix)
         THEN EventType(event) = Substring(closeAttribute, 5)
    ELSE IF StartsWith(closeAttribute, DataPrefix)
         THEN DataIncludes(event, Substring(closeAttribute, 5))
    ELSE MessageId(event) = closeAttribute

(***************************************************************************)
(* The host page.  dom[e] holds what the host answers about element e:     *)
(* its parent, its sse-connect, sse-swap and sse-close attributes          *)
(* (NoAttr when missing) and the triggers of its hx-trigger attribute.     *)
(* detached is the set of elements cut from their parent (or, for the      *)
(* root, from the body).                                                   *)
(***************************************************************************)
Elts == {"S", "A", "B"}
None == "none"
DocOrder == <<"S", "A", "B">>

RECURSIVE IsPresent(_, _, _)
IsPresent(d, det, e) ==
    IF e = None THEN TRUE
    ELSE IF e \in det THEN FALSE
    ELSE IsPresent(d, det, d[e].parent)

\* api.bodyContains(elt)
BodyContains(e) == IsPresent(dom, detached, e)

\* is x a proper descendant of e (elt.querySelectorAll searches below elt)
RECURSIVE IsBelow(_, _, _, _)
IsBelow(d, det, x, e) ==
    IF x = None \/ x \in det \/ d[x].parent = None THEN FALSE
    ELSE d[x].parent = e \/ IsBelow(d, det, d[x].parent, e)

\* hasEventSource(node)
hasEventSource(ptr, node) == ptr[node] # 0

\* a search that goes on to the outermost ancestor with a transport
RECURSIVE ClosestMatchOutermost(_, _, _)
ClosestMatchOutermost(d, ptr, e) ==
    IF e = None THEN None
    ELSE LET outer == ClosestMatchOutermost(d, ptr, d[e].parent)
         IN  IF outer # None THEN outer
             ELSE IF hasEventSource(ptr, e) THEN e
             ELSE None

\* api.getClosestMatch(elt, hasEventSource): elt itself or its nearest ancestor
RECURSIVE ClosestMatch(_, _, _)
ClosestMatch(d, ptr, e) ==
    IF e = None THEN None
    ELSE IF hasEventSource(ptr, e) THEN e
    ELSE ClosestMatch(d, ptr, d[e].parent)

\* the sse: triggers of an element, as registerSSE collects them
RECURSIVE SseTriggers(_)
SseTriggers(specs) ==
    IF specs = <<>> THEN <<>>
    ELSE IF Slice0(Head(specs), 4) = SsePrefix
         THEN <<Head(specs)>> \o SseTriggers(Tail(specs))
         ELSE SseTriggers(Tail(specs))

commonEventTypes == {TOpen, TError, TPing, TUpdate, TNotification, THeartbeat, TClose}

\* getConfiguredEventTypes(elt)
getConfiguredEventTypes(d, e) ==
    LET filters == IF Truthy(d[e].swap) THEN Split(d[e].swap) ELSE <<>>
        fromSwap == { Substring(Trim(filters[i]), 5) :
                        i \in { j \in 1..Len(filters) :
                                  StartsWith(Trim(filters[j]), TypePrefix) } }
        trig == SseTriggers(d[e].triggers)
        fromTrigger == { Substring(Substring(trig[i], 4), 5) :
                           i \in { j \in 1..Len(trig) :
                                     StartsWith(Substring(trig[j], 4), TypePrefix) } }
        fromClose == IF Truthy(d[e].close) /\ StartsWith(d[e].close, TypePrefix)
                     THEN {Substring(d[e].close, 5)} ELSE {}
    IN  fromSwap \cup fromTrigger \cup fromClose

\* registerEventTypeListeners: the event types a listener ends up attached to,
\* 'message' (attached by the caller) included
ListenerTypes(d, e) ==
    {TMessage} \cup ((getConfiguredEventTypes(d, e) \cup commonEventTypes) \ {TMessage})

(***************************************************************************)
(* A transport is a record [elt, readyState, retryCount, retryArg,         *)
(* listeners, nreg].  retryCount is the closure variable of                *)
(* ensureEventSource (0 stands for undefined as well) and retryArg the     *)
(* value it was called with.  listeners is the sequence of listeners in the*)
(* order of their addEventListener calls; a listener is                    *)
(* [reg, kind, elt, srcElt, filt, types]: types are the event types it is  *)
(* attached to.  sseEventSource[e] is getInternalData(e).sseEventSource,   *)
(* an index into sources, 0 when undefined.                                *)
(***************************************************************************)
\* a registration that puts the new listener before the others
AddListenerFirst(srcs, s, kind, e, srcElt, filt, types) ==
    [srcs EXCEPT ![s].listeners =
                     <<[reg |-> srcs[s].nreg + 1, kind |-> kind, elt |-> e,
                        srcElt |-> srcElt, filt |-> filt, types |-> types]>> \o @,
                 ![s].nreg = @ + 1]

\* source.addEventListener for one new listener and all its event types
AddListener(srcs, s, kind, e, srcElt, filt, types) ==
    [srcs EXCEPT ![s].listeners =
                     Append(@, [reg |-> srcs[s].nreg + 1, kind |-> kind, elt |-> e,
                                srcElt |-> srcElt, filt |-> filt, types |-> types]),
                 ![s].nreg = @ + 1]

\* registerSSE, second half: the hx-trigger listener
RegisterTrigger(d, ptr, srcs, e) ==
    IF d[e].triggers = <<>> THEN srcs
    ELSE LET sourceElement == ClosestMatch(d, ptr, e)
             sseTriggersFilters == SseTriggers(d[e].triggers)
         IN  IF sourceElement = None THEN srcs
             ELSE IF sseTriggersFilters = <<>> THEN srcs
             ELSE AddListener(srcs, ptr[sourceElement], "trigger", e, sourceElement,
                              sseTriggersFilters, ListenerTypes(d, e))

\* a registration that falls back on the first transport of the page when the
\* element has no ancestor with a transport
registerSSEAnywhere(d, ptr, srcs, e) ==
    IF Truthy(d[e].swap) /\ ClosestMatch(d, ptr, e) = None /\ srcs # <<>>
    THEN AddListener(srcs, 1, "swap", e, srcs[1].elt, <<d[e].swap>>, ListenerTypes(d, e))
    ELSE IF Truthy(d[e].swap)
    THEN LET sourceElement == ClosestMatch(d, ptr, e)
         IN  IF sourceElement = None THEN srcs
             ELSE RegisterTrigger(d, ptr,
                      AddListener(srcs, ptr[sourceElement], "swap", e, sourceElement,
                                  <<d[e].swap>>, ListenerTypes(d, e)),
                      e)
    ELSE RegisterTrigger(d, ptr, srcs, e)

\* registerSSE(elt)
registerSSE(d, ptr, srcs, e) ==
    IF Truthy(d[e].swap)
    THEN LET sourceElement == ClosestMatch(d, ptr, e)
         IN  IF sourceElement = None THEN srcs
             ELSE RegisterTrigger(d, ptr,
                      AddListener(srcs, ptr[sourceElement], "swap", e, sourceElement,
                                  <<d[e].swap>>, ListenerTypes(d, e)),
                      e)
    ELSE RegisterTrigger(d, ptr, srcs, e)

(***************************************************************************)
(* What an operation does to the host: out is the sequence of effects of   *)
(* the last operation (host notifications, swaps, triggers, transports     *)
(* created and closed, timers set), in the order they happen.  The         *)
(* operators below thread a record st = [ptr, sources, timers, out].       *)
(***************************************************************************)
Eff(ev, e, s, num, info, data) ==
    [ev |-> ev, elt |-> e, src |-> s, num |-> num, info |-> info, data |-> data]

Emit(st, eff) == [st EXCEPT !.out = Append(@, eff)]

\* source.close()
CloseSource(st, s) ==
    [Emit(st, Eff("close", st.sources[s].elt, s, 0, "", <<>>))
        EXCEPT !.sources[s].readyState = "closed"]

\* did maybeCloseSSESource(elt) return true
MaybeCloses(st, e) == ~BodyContains(e) /\ st.ptr[e] # 0

\* maybeCloseSSESource(elt): the state it leaves
maybeCloseSSESource(st, e) ==
    IF MaybeCloses(st, e)
    THEN CloseSource(Emit(st, Eff("htmx:sseClose", e, st.ptr[e], 0, "nodeMissing", <<>>)),
                     st.ptr[e])
    ELSE st

\* source.removeEventListener('message', listener)
RemoveMessageListener(st, s, k) ==
    [st EXCEPT !.sources[s].listeners[k].types = @ \ {TMessage}]

\* a swap that does not wait for the answer to the before-message notification
SwapActionDespiteVeto(st, s, L, event, veto) ==
    Emit(Emit(Emit(st, Eff("htmx:sseBeforeMessage", L.elt, s, L.reg, "", event.data)),
              Eff("swap", L.elt, s, L.reg, "", event.data)),
         Eff("htmx:sseMessage", L.elt, s, L.reg, "", event.data))

\* the rest of messageListener once shouldProcess is true
SwapAction(st, s, L, event, veto) ==
    LET before == Emit(st, Eff("htmx:sseBeforeMessage", L.elt, s, L.reg, "", event.data))
    IN  IF L.elt \in veto THEN before
        ELSE Emit(Emit(before, Eff("swap", L.elt, s, L.reg, "", event.data)),
                  Eff("htmx:sseMessage", L.elt, s, L.reg, "", event.data))

\* a sse-swap listener that gives the Connection up when its list holds an empty
\* filter
messageListenerStrict(st, s, k, event, veto) ==
    LET L == st.sources[s].listeners[k]
        filters == Split(L.filt[1])
    IN  IF MaybeCloses(st, L.srcElt) THEN maybeCloseSSESource(st, L.srcElt)
        ELSE IF ~BodyContains(L.elt) THEN RemoveMessageListener(st, s, k)
        ELSE IF \E i \in DOMAIN filters : Trim(filters[i]) = <<>>
        THEN CloseSource(Emit(st, Eff("htmx:sseError", L.elt, s, L.reg, "", <<>>)), s)
        ELSE IF ~ShouldProcess(L.filt[1], event) THEN st
        ELSE SwapAction(st, s, L, event, veto)

\* a sse-swap listener that counts the frames it did not match in retryCount
messageListenerCounting(st, s, k, event, veto) ==
    LET L == st.sources[s].listeners[k]
    IN  IF MaybeCloses(st, L.srcElt) THEN maybeCloseSSESource(st, L.srcElt)
        ELSE IF ~BodyContains(L.elt) THEN RemoveMessageListener(st, s, k)
        ELSE IF ~ShouldProcess(L.filt[1], event)
        THEN [st EXCEPT !.sources[s].retryCount = 1]
        ELSE SwapAction(st, s, L, event, veto)

\* messageListener of registerSSE (the sse-swap listener)
messageListener(st, s, k, event, veto) ==
    LET L == st.sources[s].listeners[k]
    IN  IF MaybeCloses(st, L.srcElt) THEN maybeCloseSSESource(st, L.srcElt)
        ELSE IF ~BodyContains(L.elt) THEN RemoveMessageListener(st, s, k)
        ELSE IF ~ShouldProcess(L.filt[1], event) THEN st
        ELSE SwapAction(st, s, L, event, veto)

\* triggers that tell the host of the message before they trigger the element
RECURSIVE TriggerEachNotifyFirst(_, _, _, _, _)
TriggerEachNotifyFirst(st, s, L, i, event) ==
    IF i > Len(L.filt) THEN st
    ELSE IF ShouldTrigger(Substring(L.filt[i], 4), event)
         THEN TriggerEachNotifyFirst(
                  Emit(Emit(st, Eff("htmx:sseMessage", L.elt, s, L.reg, "", event.data)),
                       Eff("trigger", L.elt, s, L.reg, "", L.filt[i])),
                  s, L, i + 1, event)
         ELSE TriggerEachNotifyFirst(st, s, L, i + 1, event)

\* sseTriggersFilters.forEach of the hx-trigger listener, from filter i on
RECURSIVE TriggerEach(_, _, _, _, _)
TriggerEach(st, s, L, i, event) ==
    IF i > Len(L.filt) THEN st
    ELSE IF ShouldTrigger(Substring(L.filt[i], 4), event)
         THEN TriggerEach(
                  Emit(Emit(st, Eff("trigger", L.elt, s, L.reg, "", L.filt[i])),
                       Eff("htmx:sseMessage", L.elt, s, L.reg, "", event.data)),
                  s, L, i + 1, event)
         ELSE TriggerEach(st, s, L, i + 1, event)

\* listener of registerSSE (the hx-trigger listener)
listener(st, s, k, event) ==
    LET L == st.sources[s].listeners[k]
    IN  IF MaybeCloses(st, L.srcElt) THEN maybeCloseSSESource(st, L.srcElt)
        ELSE IF ~BodyContains(L.elt) THEN RemoveMessageListener(st, s, k)
        ELSE TriggerEach(st, s, L, 1, event)

\* a close listener that tells the host but leaves the transport as it is
closeListenerKeepsOpen(st, s, k, event) ==
    LET L == st.sources[s].listeners[k]
    IN  IF ShouldClose(L.filt[1], event)
        THEN Emit(st, Eff("htmx:sseClose", L.elt, s, L.reg, "message", <<>>))
        ELSE st

\* closeListener of ensureEventSource (the sse-close listener)
closeListener(st, s, k, event) ==
    LET L == st.sources[s].listeners[k]
    IN  IF ShouldClose(L.filt[1], event)
        THEN CloseSource(Emit(st, Eff("htmx:sseClose", L.elt, s, L.reg, "message", <<>>)), s)
        ELSE st

\* one listener called with an event
Invoke(st, s, k, event, veto) ==
    LET kind == st.sources[s].listeners[k].kind
    IN  IF kind = "swap" THEN messageListener(st, s, k, event, veto)
        ELSE IF kind = "trigger" THEN listener(st, s, k, event)
        ELSE closeListener(st, s, k, event)

\* x || ''
OrEmpty(x) == IF Absent(x) THEN <<>> ELSE x

\* the event a listener is called with: the event of the transport for 'message',
\* and the modified event that the wrapper of registerEventTypeListeners builds
\* for every other type
ListenerEvent(type, event) ==
    IF type = TMessage THEN event
    ELSE [id |-> OrEmpty(event.id), type |-> type, data |-> OrEmpty(event.data)]

\* shouldProcess of the messageListener of the ID-only extension
LegacyShouldProcess(sseSwapAttr, event) ==
    LET sseEventIds == Split(sseSwapAttr)
    IN  \E i \in 1..Len(sseEventIds) : MessageId(event) = Trim(sseEventIds[i])

\* the event types the ID-only extension attaches the listener to
LegacyListenerTypes == {TMessage}

\* does the sse-swap listener of the ID-only extension go on to the swap, for a
\* registered element in the document and a frame of the stream
LegacyFires(sseSwapAttr, frame) ==
    /\ frame.type \in LegacyListenerTypes
    /\ LegacyShouldProcess(sseSwapAttr, ListenerEvent(frame.type, frame))

\* a dispatch that ends with the first listener of the event type
RECURSIVE DispatchFirstOnly(_, _, _, _, _, _, _)
DispatchFirstOnly(st, s, k, n, type, event, veto) ==
    IF k > n THEN st
    ELSE IF type \in st.sources[s].listeners[k].types
         THEN Invoke(st, s, k, ListenerEvent(type, event), veto)
         ELSE DispatchFirstOnly(st, s, k + 1, n, type, event, veto)

\* the transport dispatching an event of one type to listeners k..n of source s
RECURSIVE Dispatch(_, _, _, _, _, _, _)
Dispatch(st, s, k, n, type, event, veto) ==
    IF k > n THEN st
    ELSE IF type \in st.sources[s].listeners[k].types
         THEN Dispatch(Invoke(st, s, k, ListenerEvent(type, event), veto),
                       s, k + 1, n, type, event, veto)
         ELSE Dispatch(st, s, k + 1, n, type, event, veto)

(***************************************************************************)
(* The connection lifecycle.                                               *)
(***************************************************************************)
MaxRetry == 128
BaseDelay == 500

Min(a, b) == IF a < b THEN a ELSE b
Max(a, b) == IF a > b THEN a ELSE b

\* the backoff without its cap
NextRetryCountUncapped(retryCount) == Max(retryCount * 2, 1)

\* retryCount = Math.max(Math.min(retryCount * 2, 128), 1)
NextRetryCount(retryCount) == Max(Min(retryCount * 2, MaxRetry), 1)

\* the delay computed from the count before it is doubled
TimeoutHalved(retryCount) == (retryCount * BaseDelay) \div 2

\* var timeout = retryCount * 500
Timeout(retryCount) == retryCount * BaseDelay

\* ensureEventSource(elt, url, retryCount)
ensureEventSource(st, e, retryCount) ==
    LET s == Len(st.sources) + 1
        made == [st EXCEPT
                   !.sources = Append(@, [elt |-> e, readyState |-> "connecting",
                                          retryCount |-> retryCount,
                                          retryArg |-> retryCount,
                                          listeners |-> <<>>, nreg |-> 0]),
                   !.ptr[e] = s,
                   !.out = Append(@, Eff("createEventSource", e, s, 0, "", <<>>))]
    IN  IF Truthy(dom[e].close)
        THEN [made EXCEPT !.sources = AddListener(@, s, "close", e, e, <<dom[e].close>>,
                                                  ListenerTypes(dom, e))]
        ELSE made

\* ensureEventSourceOnElement(elt, retryCount)
ensureEventSourceOnElement(st, e, retryCount) ==
    LET ensured == IF Truthy(dom[e].connect) THEN ensureEventSource(st, e, retryCount)
                   ELSE st
    IN  [ensured EXCEPT !.sources = registerSSE(dom, ensured.ptr, @, e)]

\* an error handler that tells the host and never reconnects
onerrorGivesUp(st, s) ==
    LET e == st.sources[s].elt
        logged == Emit(st, Eff("htmx:sseError", e, s, 0, "", <<>>))
    IN  IF MaybeCloses(logged, e) THEN maybeCloseSSESource(logged, e)
        ELSE logged

\* source.onerror, called after the transport has set its readyState
onerror(st, s) ==
    LET e == st.sources[s].elt
        logged == Emit(st, Eff("htmx:sseError", e, s, 0, "", <<>>))
    IN  IF MaybeCloses(logged, e) THEN maybeCloseSSESource(logged, e)
        ELSE IF logged.sources[s].readyState = "closed"
        THEN LET retryCount == NextRetryCount(logged.sources[s].retryCount)
                 timeout == Timeout(retryCount)
             IN  [logged EXCEPT
                    !.sources[s].retryCount = retryCount,
                    !.timers = Append(@, [elt |-> e, src |-> s, retryCount |-> retryCount,
                                          timeout |-> timeout]),
                    !.out = Append(@, Eff("setTimeout", e, s, timeout, "", <<>>))]
        ELSE logged

\* elt.querySelectorAll("[sse-swap], [data-sse-swap], [hx-trigger], [data-hx-trigger]")
RECURSIVE ChildrenToFix(_, _)
ChildrenToFix(e, i) ==
    IF i > Len(DocOrder) THEN <<>>
    ELSE IF /\ IsBelow(dom, detached, DocOrder[i], e)
            /\ (dom[DocOrder[i]].swap # NoAttr \/ dom[DocOrder[i]].triggers # <<>>)
         THEN <<DocOrder[i]>> \o ChildrenToFix(e, i + 1)
         ELSE ChildrenToFix(e, i + 1)

RECURSIVE RegisterAll(_, _, _)
RegisterAll(ptr, srcs, children) ==
    IF children = <<>> THEN srcs
    ELSE RegisterAll(ptr, registerSSE(dom, ptr, srcs, Head(children)), Tail(children))

\* onopen that resets the retry counter but registers nothing
onopenResetOnly(st, s) ==
    LET e == st.sources[s].elt
        opened == Emit(st, Eff("htmx:sseOpen", e, s, 0, "", <<>>))
    IN  [opened EXCEPT !.sources[s].retryCount = 0]

\* onopen that re-registers but keeps the retry counter
onopenKeepsCount(st, s) ==
    LET e == st.sources[s].elt
        opened == Emit(st, Eff("htmx:sseOpen", e, s, 0, "", <<>>))
    IN  IF opened.sources[s].retryCount > 0
        THEN [opened EXCEPT !.sources = RegisterAll(opened.ptr, @, ChildrenToFix(e, 1))]
        ELSE opened

\* source.onopen
onopen(st, s) ==
    LET e == st.sources[s].elt
        opened == Emit(st, Eff("htmx:sseOpen", e, s, 0, "", <<>>))
    IN  IF opened.sources[s].retryCount > 0
        THEN [opened EXCEPT
                !.sources = [RegisterAll(opened.ptr, @, ChildrenToFix(e, 1))
                                EXCEPT ![s].retryCount = 0]]
        ELSE opened

(***************************************************************************)
(* Inputs: the pages and the frames the runs draw from.                    *)
(***************************************************************************)
Url == <<"/", "e">>
VA == <<"a">>
VX == <<"x">>
TCustom == <<"c", "u", "s", "t", "o", "m">>

Node(parent, connect, swap, triggers, close) ==
    [parent |-> parent, connect |-> connect, swap |-> swap, triggers |-> triggers,
     close |-> close]

\* a connection element S with two sse-swap children A and B
Page(closeAttr, swapA, swapB) ==
    [e \in Elts |->
        IF e = "S" THEN Node(None, Url, NoAttr, <<>>, closeAttr)
        ELSE IF e = "A" THEN Node("S", NoAttr, swapA, <<>>, NoAttr)
        ELSE Node("S", NoAttr, swapB, <<>>, NoAttr)]

LifePages == { Page(NoAttr, Star, NoAttr) }

\* the hx-trigger of an element that is triggered by frames with id a
SseTriggerA == <<SsePrefix \o VA>>

\* a connection element S with an sse-swap child A, and an element B outside
\* of S that carries sse-swap or hx-trigger
OrphanPage(swapB, triggersB) ==
    [e \in Elts |->
        IF e = "S" THEN Node(None, Url, NoAttr, <<>>, NoAttr)
        ELSE IF e = "A" THEN Node("S", NoAttr, Star, <<>>, NoAttr)
        ELSE Node(None, NoAttr, swapB, triggersB, NoAttr)]

\* a connection element S that is a subscriber itself, a connection element A
\* inside S, and a subscriber B inside A
NestedPages ==
    { [e \in Elts |->
          IF e = "S" THEN Node(None, Url, Star, <<>>, NoAttr)
          ELSE IF e = "A" THEN Node("S", Url, NoAttr, <<>>, NoAttr)
          ELSE Node("A", NoAttr, Star, <<>>, NoAttr)] }

OrphanPages == { OrphanPage(Star, <<>>), OrphanPage(NoAttr, SseTriggerA),
                 OrphanPage(VA, SseTriggerA) }

NoEvent == [id |-> <<>>, type |-> <<>>, data |-> <<>>]

VHi == <<"h", "i">>
VUserUpdate == <<"u", "s", "e", "r", "-", "u", "p", "d", "a", "t", "e">>
XHiY == <<"x", "h", "i", "y">>

\* the values written in filters
Vals == {TPing, TNotification, VHi, VUserUpdate}

\* the single filters: the wildcard, and each prefix (or none) before each value
Tokens ==
    {Star} \cup { p \o v : p \in {<<>>, IdPrefix, TypePrefix, DataPrefix}, v \in Vals }

\* the filters that the lists are made of
ListTokens == {Star, VA, TypePrefix \o TNotification, DataPrefix \o VHi}

\* the lists of two filters, written tight and written with blanks around the filters
Lists ==
    { t1 \o <<Comma>> \o t2 : t1 \in ListTokens, t2 \in ListTokens }
    \cup { <<Blank>> \o t1 \o <<Blank, Comma, Blank>> \o t2 \o <<Blank>> :
             t1 \in ListTokens, t2 \in ListTokens }

\* a wildcard subscriber next to a subscriber that names an event type of its own
SharedTypePages == { Page(NoAttr, Star, TypePrefix \o TCustom) }

MatchPages == { Page(NoAttr, f, NoAttr) : f \in Tokens \cup Lists } \cup SharedTypePages

MatchFrames ==
    [id : {<<>>, VA, TNotification, VUserUpdate},
     type : {TMessage, TNotification, VUserUpdate, TCustom},
     data : {<<>>, VHi, XHiY}]

\* a connection element S with an sse-swap child A and an hx-trigger child B
TriggerPage ==
    [e \in Elts |->
        IF e = "S" THEN Node(None, Url, NoAttr, <<>>, NoAttr)
        ELSE IF e = "A" THEN Node("S", NoAttr, VA, <<>>, NoAttr)
        ELSE Node("S", NoAttr, NoAttr, SseTriggerA, NoAttr)]

\* two subscribers, without and with an sse-close attribute on the connection
\* element, and with an hx-trigger subscriber in the place of the second
DispatchPages == { Page(NoAttr, VA, Star), Page(IdPrefix \o VA, VA, Star), TriggerPage }

DispatchFrames == [id : {<<>>, VA}, type : {TMessage, TPing, TCustom}, data : {VX}]

LifeFrames == [id : {VA}, type : {TMessage}, data : {VX}]

\* two subscribers that match every frame, or every frame with id a
OrderPages == { Page(NoAttr, Star, Star), Page(NoAttr, VA, VA) }

VXColonA == <<"x", ":", "a">>

\* can the filter be written after sse: in hx-trigger, where a comma or a blank
\* ends the name of the trigger
Writable(f) == \A i \in DOMAIN f : f[i] \notin {Comma, Blank}

\* the hx-trigger that names filter f, as api.getTriggerSpecs hands it over
TriggerFor(f) == IF f = NoAttr \/ ~Writable(f) THEN <<>> ELSE <<SsePrefix \o f>>

\* a connection element S with sse-close, and two children that carry the same
\* filter in sse-swap and in hx-trigger
FilterPage(closeAttr, fa, fb) ==
    [e \in Elts |->
        IF e = "S" THEN Node(None, Url, NoAttr, <<>>, closeAttr)
        ELSE IF e = "A" THEN Node("S", NoAttr, fa, TriggerFor(fa), NoAttr)
        ELSE Node("S", NoAttr, fb, TriggerFor(fb), NoAttr)]

\* the values written after id: on child A and bare on child B
PairVals == {VA, VHi, <<>>, Star}

PairPages ==
    { FilterPage(IdPrefix \o x, IdPrefix \o x, x) : x \in PairVals }
    \cup { FilterPage(x, IdPrefix \o x, x) : x \in PairVals }

\* lists, blanks, an unknown prefix, empty filters and prefixes without a value
KindExprs ==
    { VA \o <<Comma>> \o VHi, <<Blank>> \o VA \o <<Blank>>, VXColonA,
      VA \o <<Comma, Comma>> \o VHi, <<Comma>>, <<Blank>>,
      TypePrefix, DataPrefix, DataPrefix \o VHi, TypePrefix \o TPing }

\* the same expression in sse-close, in sse-swap and, where it can be written, in
\* hx-trigger
KindPages == { FilterPage(f, f, NoAttr) : f \in KindExprs }

\* an empty and a blank sse-swap next to the wildcard
EmptyPages == { FilterPage(NoAttr, f, Star) : f \in {<<>>, <<Blank>>} }

FilterPages == PairPages \cup KindPages \cup EmptyPages

FilterFrames ==
    [id : {<<>>, VA, VHi, VXColonA}, type : {TMessage, TPing}, data : {<<>>, VHi, XHiY}]

\* pages whose filters name the default type, an empty type, an empty id
AbsentPages ==
    PairPages \cup
    { FilterPage(f, f, NoAttr) :
        f \in {TypePrefix \o TMessage, TypePrefix, TypePrefix \o TPing, <<Comma>>} }

\* frames as a transport made by htmx.createEventSource may hand them over: the
\* id and the type undefined, empty or set
AbsentFrames == [id : {NoAttr, <<>>, VA}, type : {NoAttr, <<>>, TMessage, TPing}, data : {VHi}]


(***************************************************************************)
(* The operations.  last names the operation just done and its inputs; for *)
(* an operation on a transport, was, rc and arg are the readyState, the    *)
(* retryCount and the retryArg the operation found, noticed says whether a *)
(* close notification had been emitted for it before, and heard is the set *)
(* of elements whose sse-swap or hx-trigger listener on it was attached to *)
(* the type of the frame.  notified                                        *)
(* is the set of transports a close notification has been emitted for,     *)
(* kept for as long as the program holds on to them.                       *)
(***************************************************************************)
Start == [ptr |-> sseEventSource, sources |-> sources, timers |-> timers, out |-> <<>>]

\* A transport that has been closed delivers no further event: its listeners and
\* its closure variables can no longer be reached, and the model drops them once
\* the operation that closed it has run to its end.
Released(srcs) ==
    [s \in DOMAIN srcs |->
        IF srcs[s].readyState = "closed"
        THEN [srcs[s] EXCEPT !.listeners = <<>>, !.nreg = 0, !.retryCount = 0,
                             !.retryArg = 0]
        ELSE srcs[s]]

\* the transports an operation has emitted a close notification for
Noticed(effects) ==
    { effects[i].src : i \in { j \in DOMAIN effects : effects[j].ev = "htmx:sseClose" } }

\* the transports the program can still close or follow up: the one stored on
\* its element and the ones a pending timer was set for
Held(st) ==
    { s \in DOMAIN st.sources :
        \/ st.ptr[st.sources[s].elt] = s
        \/ \E i \in DOMAIN st.timers : st.timers[i].src = s }

Commit(st) ==
    /\ sseEventSource' = st.ptr
    /\ sources' = Released(st.sources)
    /\ timers' = st.timers
    /\ notified' = (notified \cup Noticed(st.out)) \cap Held(st)
    /\ out' = st.out

Op(op, e, s, event, fatal, veto) ==
    [op |-> op, elt |-> e, src |-> s, event |-> event, fatal |-> fatal, veto |-> veto,
     was |-> IF s = 0 THEN "" ELSE sources[s].readyState,
     rc |-> IF s = 0 THEN 0 ELSE sources[s].retryCount,
     arg |-> IF s = 0 THEN 0 ELSE sources[s].retryArg,
     noticed |-> s \in notified,
     heard |-> IF s = 0 THEN {}
               ELSE { sources[s].listeners[k].elt :
                        k \in { j \in 1..Len(sources[s].listeners) :
                                  /\ sources[s].listeners[j].kind # "close"
                                  /\ event.type \in sources[s].listeners[j].types } }]

Init ==
    /\ dom \in LifePages
    /\ detached = {}
    /\ sseEventSource = [e \in Elts |-> 0]
    /\ sources = <<>>
    /\ timers = <<>>
    /\ notified = {}
    /\ last = [op |-> "init", elt |-> None, src |-> 0, event |-> NoEvent, fatal |-> FALSE,
               veto |-> {}, was |-> "", rc |-> 0, arg |-> 0, noticed |-> FALSE, heard |-> {}]
    /\ out = <<>>

\* the source a registration of element e would attach to, 0 if none
TargetOf(e) ==
    LET c == ClosestMatch(dom, sseEventSource, e)
    IN  IF c = None THEN 0 ELSE sseEventSource[c]

\* onEvent('htmx:afterProcessNode') for element e
AfterProcessNode(e) ==
    /\ BodyContains(e)
    /\ Commit(ensureEventSourceOnElement(Start, e, 0))
    /\ last' = Op("afterProcessNode", e, 0, NoEvent, FALSE, {})
    /\ UNCHANGED <<dom, detached>>

\* onEvent('htmx:beforeCleanupElement') for element e
BeforeCleanupElement(e) ==
    /\ BodyContains(e)
    /\ LET source == sseEventSource[e]
       IN  IF source # 0
           THEN Commit(CloseSource(
                    Emit(Start, Eff("htmx:sseClose", e, source, 0, "nodeReplaced", <<>>)),
                    source))
           ELSE Commit(Start)
    /\ last' = Op("beforeCleanupElement", e, sseEventSource[e], NoEvent, FALSE, {})
    /\ UNCHANGED <<dom, detached>>

\* the host takes element e (and what is below it) out of the document
RemoveElement(e) ==
    /\ BodyContains(e)
    /\ detached' = detached \cup {e}
    /\ last' = Op("removeElement", e, 0, NoEvent, FALSE, {})
    /\ out' = <<>>
    /\ UNCHANGED <<dom, sseEventSource, sources, timers, notified>>

\* the transport of source s reports an error; fatal says whether it gave up
\* (readyState CLOSED) or retries by itself (readyState CONNECTING)
TransportError(s, fatal) ==
    /\ sources[s].readyState \in {"connecting", "open"}
    /\ LET failed == [Start EXCEPT !.sources[s].readyState =
                                       IF fatal THEN "closed" ELSE "connecting"]
           n == Len(sources[s].listeners)
       IN  Commit(Dispatch(onerror(failed, s), s, 1, n, TError, NoEvent, {}))
    /\ last' = Op("error", sources[s].elt, s, NoEvent, fatal, {})
    /\ UNCHANGED <<dom, detached>>

\* the transport of source s reports that the connection is open
TransportOpen(s) ==
    /\ sources[s].readyState = "connecting"
    /\ LET opened == [Start EXCEPT !.sources[s].readyState = "open"]
           n == Len(sources[s].listeners)
       IN  Commit(Dispatch(onopen(opened, s), s, 1, n, TOpen, NoEvent, {}))
    /\ last' = Op("open", sources[s].elt, s, NoEvent, FALSE, {})
    /\ UNCHANGED <<dom, detached>>

\* the elements whose htmx:sseBeforeMessage the host may veto
Vetoable(s) == { sources[s].listeners[k].elt :
                   k \in { j \in 1..Len(sources[s].listeners) :
                             sources[s].listeners[j].kind = "swap" } }

\* the listeners a frame goes to: those of its event name, and those of
\* 'message' for a frame without one
DispatchType(frame) ==
    IF Absent(frame.type) \/ frame.type = <<>> THEN TMessage ELSE frame.type

\* the transport of source s delivers one frame of the stream
TransportMessage(s, frame, veto) ==
    /\ sources[s].readyState = "open"
    /\ Commit(Dispatch(Start, s, 1, Len(sources[s].listeners), DispatchType(frame), frame,
                       veto))
    /\ last' = Op("message", sources[s].elt, s, frame, FALSE, veto)
    /\ UNCHANGED <<dom, detached>>

\* the elements of the tree below and including root, in document order
RECURSIVE Subtree(_, _)
Subtree(root, i) ==
    IF i > Len(DocOrder) THEN <<>>
    ELSE IF DocOrder[i] = root \/ IsBelow(dom, detached, DocOrder[i], root)
         THEN <<DocOrder[i]>> \o Subtree(root, i + 1)
         ELSE Subtree(root, i + 1)

\* onEvent('htmx:afterProcessNode') for each element of a sequence, in turn
RECURSIVE ProcessNodes(_, _)
ProcessNodes(st, elts) ==
    IF elts = <<>> THEN st
    ELSE ProcessNodes(ensureEventSourceOnElement(st, Head(elts), 0), Tail(elts))

\* htmx processes the tree of element root: one synchronous walk that fires
\* htmx:afterProcessNode for root and then for every element below it
ProcessTree(root) ==
    /\ BodyContains(root)
    /\ Commit(ProcessNodes(Start, Subtree(root, 1)))
    /\ last' = Op("processTree", root, 0, NoEvent, FALSE, {})
    /\ UNCHANGED <<dom, detached>>

\* the callback of window.setTimeout set by onerror
ReconnectTimer(i) ==
    /\ LET t == timers[i]
           rest == [Start EXCEPT !.timers = SubSeq(@, 1, i - 1) \o SubSeq(@, i + 1, Len(@))]
       IN  /\ Commit(ensureEventSourceOnElement(rest, t.elt, t.retryCount))
           /\ last' = Op("timer", t.elt, t.src, NoEvent, FALSE, {})
    /\ UNCHANGED <<dom, detached>>

(***************************************************************************)
(* Spec: every operation, on a page with two subscribers.  The host may    *)
(* process an element again; the run is cut when a step would create more  *)
(* than MaxSources transports or let the host register more than           *)
(* MaxListeners listeners on one transport.                                *)
(***************************************************************************)
WithinSources(max) == Len(sources') <= max

HostRegistersWithin(e, max) ==
    TargetOf(e) # 0 /\ ~Truthy(dom[e].connect) => sources[TargetOf(e)].nreg < max

HostStep ==
    \/ \E e \in Elts : /\ AfterProcessNode(e)
                       /\ WithinSources(MaxSources)
                       /\ HostRegistersWithin(e, MaxListeners)
    \/ \E e \in Elts : BeforeCleanupElement(e)
    \/ \E e \in Elts : RemoveElement(e)

TransportStep ==
    \/ \E s \in 1..Len(sources), fatal \in BOOLEAN : TransportError(s, fatal)
    \/ \E s \in 1..Len(sources) : TransportOpen(s)
    \/ \E s \in 1..Len(sources), frame \in LifeFrames :
          \E veto \in SUBSET Vetoable(s) : TransportMessage(s, frame, veto)

TimerStep == \E i \in 1..Len(timers) : ReconnectTimer(i) /\ WithinSources(MaxSources)

Next == HostStep \/ TransportStep \/ TimerStep

Spec == Init /\ [][Next]_vars

(***************************************************************************)
(* SpecBackoff: the host processes an element on first need only (a        *)
(* connection element that has no transport yet, a subscriber that has no  *)
(* listener yet), so that one transport follows the other; the run is cut  *)
(* after MaxAttempts transports.                                           *)
(***************************************************************************)
FirstNeed(e) ==
    IF Truthy(dom[e].connect) THEN sseEventSource[e] = 0
    ELSE /\ TargetOf(e) # 0
         /\ \A k \in 1..Len(sources[TargetOf(e)].listeners) :
                sources[TargetOf(e)].listeners[k].elt # e

HostStepBackoff ==
    \/ \E e \in Elts : AfterProcessNode(e) /\ FirstNeed(e)
    \/ \E e \in Elts : BeforeCleanupElement(e) /\ sseEventSource[e] # 0
    \/ \E e \in Elts : RemoveElement(e) /\ sseEventSource[e] # 0

TransportStepBackoff ==
    \/ \E s \in 1..Len(sources), fatal \in BOOLEAN : TransportError(s, fatal)
    \/ \E s \in 1..Len(sources) : TransportOpen(s)

TimerStepBackoff ==
    \E i \in 1..Len(timers) : ReconnectTimer(i) /\ WithinSources(MaxAttempts)

NextBackoff == HostStepBackoff \/ TransportStepBackoff \/ TimerStepBackoff

SpecBackoff == Init /\ [][NextBackoff]_vars

\* SpecBackoffLive: the same, with the browser running the callback of every
\* timer that window.setTimeout has set.
SpecBackoffLive == SpecBackoff /\ WF_vars(TimerStepBackoff)

(***************************************************************************)
(* SpecDispatch: a page with two subscribers, processed on first need, in  *)
(* either order; frames of the default type, of a pre-subscribed type and  *)
(* of a type nobody listens to; at most MaxReconnects transports.          *)
(***************************************************************************)
InitDispatch ==
    /\ dom \in DispatchPages
    /\ detached = {}
    /\ sseEventSource = [e \in Elts |-> 0]
    /\ sources = <<>>
    /\ timers = <<>>
    /\ notified = {}
    /\ last = [op |-> "init", elt |-> None, src |-> 0, event |-> NoEvent, fatal |-> FALSE,
               veto |-> {}, was |-> "", rc |-> 0, arg |-> 0, noticed |-> FALSE, heard |-> {}]
    /\ out = <<>>

HostStepDispatch ==
    \/ \E e \in Elts : AfterProcessNode(e) /\ FirstNeed(e)
    \/ \E e \in Elts : RemoveElement(e) /\ Truthy(dom[e].swap)

TransportStepDispatch ==
    \/ \E s \in 1..Len(sources), fatal \in BOOLEAN : TransportError(s, fatal)
    \/ \E s \in 1..Len(sources) : TransportOpen(s)
    \/ \E s \in 1..Len(sources), frame \in DispatchFrames :
          \E veto \in SUBSET Vetoable(s) : TransportMessage(s, frame, veto)

TimerStepDispatch ==
    \E i \in 1..Len(timers) : ReconnectTimer(i) /\ WithinSources(MaxReconnects)

NextDispatch == HostStepDispatch \/ TransportStepDispatch \/ TimerStepDispatch

SpecDispatch == InitDispatch /\ [][NextDispatch]_vars

(***************************************************************************)
(* SpecMatch: a page with one subscriber whose sse-swap attribute is drawn *)
(* from the single filters and the lists; the Connection opens and frames  *)
(* drawn from MatchFrames arrive.                                          *)
(***************************************************************************)
InitMatch ==
    /\ dom \in MatchPages
    /\ detached = {}
    /\ sseEventSource = [e \in Elts |-> 0]
    /\ sources = <<>>
    /\ timers = <<>>
    /\ notified = {}
    /\ last = [op |-> "init", elt |-> None, src |-> 0, event |-> NoEvent, fatal |-> FALSE,
               veto |-> {}, was |-> "", rc |-> 0, arg |-> 0, noticed |-> FALSE, heard |-> {}]
    /\ out = <<>>

NextMatch ==
    \/ \E e \in Elts : AfterProcessNode(e) /\ FirstNeed(e)
    \/ \E s \in 1..Len(sources) : TransportOpen(s)
    \/ \E s \in 1..Len(sources), frame \in MatchFrames : TransportMessage(s, frame, {})

SpecMatch == InitMatch /\ [][NextMatch]_vars

(***************************************************************************)
(* SpecOrphan: a page with an element outside of the connection element;   *)
(* the host processes any element, any number of times within the bounds.  *)
(***************************************************************************)
InitOrphan ==
    /\ dom \in OrphanPages
    /\ detached = {}
    /\ sseEventSource = [e \in Elts |-> 0]
    /\ sources = <<>>
    /\ timers = <<>>
    /\ notified = {}
    /\ last = [op |-> "init", elt |-> None, src |-> 0, event |-> NoEvent, fatal |-> FALSE,
               veto |-> {}, was |-> "", rc |-> 0, arg |-> 0, noticed |-> FALSE, heard |-> {}]
    /\ out = <<>>

NextOrphan ==
    \/ \E e \in Elts : /\ AfterProcessNode(e)
                       /\ WithinSources(MaxSources)
                       /\ HostRegistersWithin(e, MaxListeners)
    \/ \E s \in 1..Len(sources), fatal \in BOOLEAN : TransportError(s, fatal)
    \/ \E s \in 1..Len(sources) : TransportOpen(s)
    \/ \E s \in 1..Len(sources), frame \in LifeFrames : TransportMessage(s, frame, {})
    \/ \E i \in 1..Len(timers) : ReconnectTimer(i) /\ WithinSources(MaxSources)

SpecOrphan == InitOrphan /\ [][NextOrphan]_vars

(***************************************************************************)
(* SpecNested: a connection element inside another one.  The host          *)
(* processes the page once, in one walk, which creates two transports; at  *)
(* most MaxReconnects + 1 transports.                                      *)
(***************************************************************************)
InitNested ==
    /\ dom \in NestedPages
    /\ detached = {}
    /\ sseEventSource = [e \in Elts |-> 0]
    /\ sources = <<>>
    /\ timers = <<>>
    /\ notified = {}
    /\ last = [op |-> "init", elt |-> None, src |-> 0, event |-> NoEvent, fatal |-> FALSE,
               veto |-> {}, was |-> "", rc |-> 0, arg |-> 0, noticed |-> FALSE, heard |-> {}]
    /\ out = <<>>

NextNested ==
    \/ ProcessTree("S") /\ sseEventSource["S"] = 0
    \/ \E s \in 1..Len(sources), fatal \in BOOLEAN : TransportError(s, fatal)
    \/ \E s \in 1..Len(sources) : TransportOpen(s)
    \/ \E s \in 1..Len(sources), frame \in LifeFrames : TransportMessage(s, frame, {})
    \/ \E i \in 1..Len(timers) : ReconnectTimer(i) /\ WithinSources(MaxReconnects + 1)

SpecNested == InitNested /\ [][NextNested]_vars

(***************************************************************************)
(* SpecFilter: pages whose sse-close, sse-swap and hx-trigger carry the    *)
(* same filter or the two spellings of one filter; the host processes the  *)
(* page in one walk, the Connection opens and frames drawn from            *)
(* FilterFrames arrive.                                                    *)
(***************************************************************************)
InitFilter ==
    /\ dom \in FilterPages
    /\ detached = {}
    /\ sseEventSource = [e \in Elts |-> 0]
    /\ sources = <<>>
    /\ timers = <<>>
    /\ notified = {}
    /\ last = [op |-> "init", elt |-> None, src |-> 0, event |-> NoEvent, fatal |-> FALSE,
               veto |-> {}, was |-> "", rc |-> 0, arg |-> 0, noticed |-> FALSE, heard |-> {}]
    /\ out = <<>>

NextFilter ==
    \/ ProcessTree("S") /\ sseEventSource["S"] = 0
    \/ \E s \in 1..Len(sources) : TransportOpen(s)
    \/ \E s \in 1..Len(sources), frame \in FilterFrames : TransportMessage(s, frame, {})

SpecFilter == InitFilter /\ [][NextFilter]_vars

(***************************************************************************)
(* SpecOrder: the host processes the connection element, then child B, and *)
(* then child A, which stands before B in the document (an element added   *)
(* to the page later); after that the transport may fail and reconnect, at *)
(* most MaxReconnects transports.                                          *)
(***************************************************************************)
InitOrder ==
    /\ dom \in OrderPages
    /\ detached = {}
    /\ sseEventSource = [e \in Elts |-> 0]
    /\ sources = <<>>
    /\ timers = <<>>
    /\ notified = {}
    /\ last = [op |-> "init", elt |-> None, src |-> 0, event |-> NoEvent, fatal |-> FALSE,
               veto |-> {}, was |-> "", rc |-> 0, arg |-> 0, noticed |-> FALSE, heard |-> {}]
    /\ out = <<>>

\* both children have been processed
BothRegistered == sseEventSource["S"] # 0 /\ ~FirstNeed("A") /\ ~FirstNeed("B")

NextOrder ==
    \/ AfterProcessNode("S") /\ FirstNeed("S")
    \/ AfterProcessNode("B") /\ FirstNeed("B") /\ Len(sources) = 1
    \/ AfterProcessNode("A") /\ FirstNeed("A") /\ Len(sources) = 1 /\ ~FirstNeed("B")
    \/ \E s \in 1..Len(sources), fatal \in BOOLEAN :
          TransportError(s, fatal) /\ (Len(sources) > 1 \/ BothRegistered)
    \/ \E s \in 1..Len(sources) : TransportOpen(s)
    \/ \E s \in 1..Len(sources), frame \in DispatchFrames : TransportMessage(s, frame, {})
    \/ \E i \in 1..Len(timers) : ReconnectTimer(i) /\ WithinSources(MaxReconnects)

SpecOrder == InitOrder /\ [][NextOrder]_vars

(***************************************************************************)
(* SpecAbsent: the pages of SpecFilter that test the id and the type, and  *)
(* frames whose id or type is missing.                                     *)
(***************************************************************************)
InitAbsent ==
    /\ dom \in AbsentPages
    /\ detached = {}
    /\ sseEventSource = [e \in Elts |-> 0]
    /\ sources = <<>>
    /\ timers = <<>>
    /\ notified = {}
    /\ last = [op |-> "init", elt |-> None, src |-> 0, event |-> NoEvent, fatal |-> FALSE,
               veto |-> {}, was |-> "", rc |-> 0, arg |-> 0, noticed |-> FALSE, heard |-> {}]
    /\ out = <<>>

NextAbsent ==
    \/ ProcessTree("S") /\ sseEventSource["S"] = 0
    \/ \E s \in 1..Len(sources) : TransportOpen(s)
    \/ \E s \in 1..Len(sources), frame \in AbsentFrames : TransportMessage(s, frame, {})

SpecAbsent == InitAbsent /\ [][NextAbsent]_vars

(***************************************************************************)
(* Reading the effects of the last operation.                              *)
(***************************************************************************)
Effects(ev) == { i \in DOMAIN out : out[i].ev = ev }

CloseNotices(reason) == { i \in Effects("htmx:sseClose") : out[i].info = reason }

\* the states of a Connection that count as live
Live(s) == sources[s].readyState \in {"connecting", "open"}

LiveOf(e) == { s \in DOMAIN sources : sources[s].elt = e /\ Live(s) }

(***************************************************************************)
(* Reconnection backoff.                                                   *)
(***************************************************************************)
\* the retry counts of consecutive failed attempts, as the specification lists them
BackoffCounts == <<1, 2, 4, 8, 16, 32, 64, 128>>

\* the count that follows count n in that list (the first one after 0)
CountAfter(n) ==
    IF n = 0 THEN BackoffCounts[1]
    ELSE LET i == CHOOSE j \in DOMAIN BackoffCounts : BackoffCounts[j] = n
         IN  BackoffCounts[IF i < Len(BackoffCounts) THEN i + 1 ELSE i]

\* the last operation was a transport error that left the transport closed while
\* the element owning it was in the document
FailedAttempt == last.op = "error" /\ last.fatal /\ BodyContains(last.elt)

\* the timeouts of the timers the last operation has set
TimeoutsSet == { out[i].num : i \in Effects("setTimeout") }

\* C2: a failed attempt that found the retry counter at n (0 at first, else the
\* count the previous failed attempt left) sets one timer, with the count that
\* follows n in 1, 2, 4, ..., 128 (128 after 128) and a delay of 500 times that
\* count; every pending timer has a delay of at least 500 and at most 64000.
C2_BackoffSequence ==
    /\ \A i \in DOMAIN timers :
          /\ timers[i].timeout >= 500
          /\ timers[i].timeout <= 64000
          /\ \E j \in DOMAIN BackoffCounts :
                /\ timers[i].retryCount = BackoffCounts[j]
                /\ timers[i].timeout = 500 * BackoffCounts[j]
    /\ FailedAttempt =>
          /\ last.rc \in {0} \cup { BackoffCounts[j] : j \in DOMAIN BackoffCounts }
          /\ Cardinality(Effects("setTimeout")) = 1
          /\ TimeoutsSet = {500 * CountAfter(last.rc)}
          /\ \E i \in DOMAIN timers :
                /\ timers[i].elt = last.elt
                /\ timers[i].retryCount = CountAfter(last.rc)

\* the ninth failed attempt in a row: the counter was 128 and stays 128
C2_Witness ==
    /\ FailedAttempt
    /\ last.rc = 128
    /\ last.was = "connecting"
    /\ TimeoutsSet = {64000}

\* C3: an open transport has a retry counter of 0, and when it then fails the
\* reconnect is set after 500, whatever the counter was before it opened.
C3_ResetOnOpen ==
    /\ \A s \in DOMAIN sources : sources[s].readyState = "open" => sources[s].retryCount = 0
    /\ FailedAttempt /\ last.was = "open" =>
          /\ last.rc = 0
          /\ TimeoutsSet = {500}

\* a transport made by the third reconnect (counter 4) opened and then failed
C3_Witness ==
    /\ FailedAttempt
    /\ last.was = "open"
    /\ last.src >= 4
    /\ TimeoutsSet = {500}
    /\ \E i \in DOMAIN timers : timers[i].retryCount = 1

C1_OneLiveConnection == \A e \in Elts : Cardinality(LiveOf(e)) <= 1

\* C5: a transport error on the Connection of an element that is no longer in
\* the document closes the Connection, sets no timer and emits the close
\* notification with reason nodeMissing exactly once.
C5_NodeMissingOnce ==
    /\ last.op = "error"
    /\ ~BodyContains(last.elt)
    /\ sseEventSource[last.elt] = last.src
    => /\ sources[last.src].readyState = "closed"
       /\ Effects("setTimeout") = {}
       /\ Cardinality(CloseNotices("nodeMissing")) = 1

(***************************************************************************)
(* Subscribers and dispatch.                                               *)
(***************************************************************************)
\* the subscriber elements that got as far as the before-message notification
Evaluated == { out[i].elt : i \in Effects("htmx:sseBeforeMessage") }

\* the sse-swap elements of the Connection of element c that are in the document
PresentSubscribers(c) ==
    { e \in Elts : /\ Truthy(dom[e].swap)
                   /\ BodyContains(e)
                   /\ (e = c \/ IsBelow(dom, detached, e, c)) }

\* the last operation was a frame on a transport made by a reconnect (it was
\* created with a retry counter above 0) that is the Connection of its element
FrameAfterReconnect ==
    /\ last.op = "message"
    /\ last.arg > 0
    /\ sseEventSource[last.elt] = last.src

\* C6: on a transport made by a reconnect, every sse-swap element of the Scope
\* that is in the document is evaluated against every frame of an event type it
\* listens to: it gets the before-message notification iff its filter matches.
C6_ReattachedAfterReconnect ==
    FrameAfterReconnect =>
        \A e \in PresentSubscribers(last.elt) :
            last.event.type \in ListenerTypes(dom, e) =>
                (e \in Evaluated <=> ShouldProcess(dom[e].swap, last.event))

\* both subscribers got a frame of the second transport without the host
\* processing anything after the failure of the first
C6_Witness ==
    /\ FrameAfterReconnect
    /\ last.src = 2
    /\ Evaluated = {"A", "B"}

\* the effects of the listeners, each with the number of the registration
\* (the addEventListener order) of its listener
ListenerEffects == { i \in DOMAIN out : out[i].num > 0 /\ out[i].ev # "setTimeout" }

\* C7: the actions for one frame happen in the order in which their listeners
\* were registered on the transport: an effect of a listener registered earlier
\* is never after an effect of a listener registered later.
C7_RegistrationOrder ==
    last.op = "message" =>
        \A i, j \in ListenerEffects : out[i].num < out[j].num => i < j

\* B was registered before A, both swapped for the same frame, B first
C7_Witness ==
    /\ last.op = "message"
    /\ \E i, j \in Effects("swap") :
          /\ out[i].elt = "B" /\ out[j].elt = "A"
          /\ out[i].num < out[j].num
          /\ i < j

(***************************************************************************)
(* Filters.                                                                *)
(***************************************************************************)
\* d contains v as a substring
Contains(d, v) == \E a, b \in 0..Len(d) : a + Len(v) + b = Len(d) /\ SubSeq(d, a + 1, a + Len(v)) = v

\* element e has a listener on transport s for event type ty
ListensTo(e, s, ty) ==
    \E k \in 1..Len(sources[s].listeners) :
        sources[s].listeners[k].elt = e /\ ty \in sources[s].listeners[k].types

\* element e has a listener on transport s
RegisteredOn(e, s) ==
    \E k \in 1..Len(sources[s].listeners) : sources[s].listeners[k].elt = e

\* the last operation handed a frame to the listener of subscriber A
FrameForA ==
    /\ last.op = "message"
    /\ BodyContains("A")
    /\ ListensTo("A", last.src, last.event.type)

\* C8: a subscriber with a single filter over a non-empty value v, called with
\* a frame (id, type, data): '*' always goes on to the swap; 'id:v' and the bare
\* 'v' do iff id = v; 'type:v' does iff type = v; 'data:v' does iff data
\* contains v.
C8_SingleFilter ==
    FrameForA /\ dom["A"].swap \in Tokens =>
        LET f == dom["A"].swap
            m == last.event
            fired == "A" \in Evaluated
        IN  /\ f = Star => fired
            /\ \A v \in Vals :
                  /\ f = IdPrefix \o v => (fired <=> m.id = v)
                  /\ f = v => (fired <=> m.id = v)
                  /\ f = TypePrefix \o v => (fired <=> m.type = v)
                  /\ f = DataPrefix \o v => (fired <=> Contains(m.data, v))

\* Scenario B: id empty, type notification, data hi: the data filter fires
C8_Witness ==
    /\ FrameForA
    /\ dom["A"].swap = DataPrefix \o VHi
    /\ last.event = [id |-> <<>>, type |-> TNotification, data |-> VHi]
    /\ "A" \in Evaluated

\* the rule for one filter of a list, as the filter formats are documented
TokenMatches(tok, m) ==
    IF tok = Star THEN TRUE
    ELSE IF StartsWith(tok, IdPrefix) THEN m.id = Substring(tok, 3)
    ELSE IF StartsWith(tok, TypePrefix) THEN m.type = Substring(tok, 5)
    ELSE IF StartsWith(tok, DataPrefix) THEN Contains(m.data, Substring(tok, 5))
    ELSE m.id = tok

\* C9: a subscriber with a list of filters goes on to the swap iff at least one
\* filter of the list matches the frame; a list holding '*' matches every frame.
C9_ListIsAnyOf ==
    FrameForA /\ dom["A"].swap \in Lists =>
        LET toks == Split(dom["A"].swap)
        IN  "A" \in Evaluated <=>
                \E i \in DOMAIN toks : TokenMatches(Trim(toks[i]), last.event)

\* C10: a subscriber whose filter is '*' goes on to the swap for every frame
\* that arrives on the Connection it is registered on.
C10_WildcardEveryFrame ==
    /\ last.op = "message"
    /\ dom["A"].swap = Star
    /\ BodyContains("A")
    /\ RegisteredOn("A", last.src)
    => "A" \in Evaluated

(***************************************************************************)
(* Event types and the subscribers of one Connection.                      *)
(***************************************************************************)
\* the sse-swap elements in the document that have a listener on transport s
SwapSubscribers(s) ==
    { e \in Elts : Truthy(dom[e].swap) /\ BodyContains(e) /\ RegisteredOn(e, s) }

\* C11: a frame whose event type some listener of the Connection is attached
\* to (the default type, a pre-subscribed type or a type named by a filter of
\* any subscriber) is evaluated against every sse-swap subscriber of that
\* Connection: each goes on to the swap iff its own filter matches.
C11_DispatchedToAll ==
    /\ last.op = "message"
    /\ \E e \in Elts : ListensTo(e, last.src, last.event.type)
    => \A e \in SwapSubscribers(last.src) :
           e \in Evaluated <=> ShouldProcess(dom[e].swap, last.event)

(***************************************************************************)
(* The swap of one subscriber.                                             *)
(***************************************************************************)
\* effects i and j come from the same listener of the same transport
SameListener(i, j) ==
    /\ out[i].src = out[j].src
    /\ out[i].num = out[j].num
    /\ out[i].elt = out[j].elt

\* the listeners of the transport of the last operation that were called with its
\* frame, belong to an sse-swap element in the document and match the frame
MatchingSwapListeners ==
    { k \in 1..Len(sources[last.src].listeners) :
        LET L == sources[last.src].listeners[k]
        IN  /\ L.kind = "swap"
            /\ last.event.type \in L.types
            /\ BodyContains(L.elt)
            /\ ShouldProcess(L.filt[1], last.event) }

\* C12: a matching sse-swap subscriber gets the before-message notification
\* with the data of the frame; when the host does not veto it, the swap with
\* that data and then the after-message notification follow at once, and when
\* the host vetoes it, that subscriber gets neither a swap nor an after-message
\* notification for the frame.  No swap happens without this sequence.
C12_SwapSequence ==
    last.op = "message" =>
        /\ \A k \in MatchingSwapListeners :
               \E i \in Effects("htmx:sseBeforeMessage") :
                   /\ out[i].num = sources[last.src].listeners[k].reg
                   /\ out[i].src = last.src
        /\ \A i \in Effects("htmx:sseBeforeMessage") :
               /\ out[i].data = last.event.data
               /\ IF out[i].elt \in last.veto
                  THEN \A j \in Effects("swap") \cup Effects("htmx:sseMessage") :
                           ~SameListener(i, j)
                  ELSE /\ i + 2 <= Len(out)
                       /\ out[i + 1].ev = "swap"
                       /\ out[i + 1].data = last.event.data
                       /\ SameListener(i, i + 1)
                       /\ out[i + 2].ev = "htmx:sseMessage"
                       /\ SameListener(i, i + 2)
        /\ \A j \in Effects("swap") :
               /\ j > 1
               /\ out[j - 1].ev = "htmx:sseBeforeMessage"
               /\ SameListener(j - 1, j)

\* the host vetoed the swap of A and let B swap: A has its before-message
\* notification only, B the whole sequence
C12_Witness ==
    /\ last.op = "message"
    /\ last.veto = {"A"}
    /\ "A" \in Evaluated
    /\ \E j \in Effects("swap") : out[j].elt = "B" /\ out[j].data = VX
    /\ \A j \in Effects("swap") : out[j].elt # "A"

(***************************************************************************)
(* Closing a Connection.                                                   *)
(***************************************************************************)
\* the last operation called the sse-close listener of its transport with a
\* frame, and the close condition matches that frame
CloseMatched ==
    /\ last.op = "message"
    /\ Truthy(dom[last.elt].close)
    /\ last.event.type \in ListenerTypes(dom, last.elt)
    /\ ShouldClose(dom[last.elt].close, last.event)

\* C13: when the sse-close listener is called with a frame its condition
\* matches, the transport that delivered the frame is closed (close() is called
\* on it right after the notification) and exactly one close notification with
\* reason 'message' is emitted, for the connection element and that transport;
\* no such notification is emitted for a frame the condition does not match.
C13_CloseOnMatch ==
    /\ CloseMatched =>
          /\ sources[last.src].readyState = "closed"
          /\ Cardinality(CloseNotices("message")) = 1
          /\ \A i \in CloseNotices("message") :
                 /\ out[i].elt = last.elt
                 /\ out[i].src = last.src
                 /\ i < Len(out)
                 /\ out[i + 1].ev = "close"
                 /\ out[i + 1].src = last.src
    /\ last.op = "message" /\ ~CloseMatched => CloseNotices("message") = {}

\* sse-close="id:a" and a frame with id a of the pre-subscribed type ping
C13_Witness ==
    /\ CloseMatched
    /\ last.event.id = VA
    /\ last.event.type = TPing
    /\ last.was = "open"
    /\ sources[last.src].readyState = "closed"
    /\ CloseNotices("message") # {}

\* C14: a Connection that was closed on request (a close notification was
\* emitted for it: sse-close match, host cleanup or element found missing) is
\* never given a reconnect timer, and no timer set for it creates a new
\* transport; transports are created by the host processing the element or by
\* the timer of a Connection that was not closed on request.
C14_ClosedIsTerminal ==
    /\ \A i \in Effects("setTimeout") : out[i].src \notin notified
    /\ last.op = "timer" => ~last.noticed
    /\ Effects("createEventSource") # {} => last.op \in {"afterProcessNode", "timer"}

\* the close notifications that a sequence of effects holds for transport s
NoticesFor(effects, s) ==
    { i \in DOMAIN effects : effects[i].ev = "htmx:sseClose" /\ effects[i].src = s }

\* C15: no operation emits more than one close notification for a transport,
\* and none for a transport a close notification was already emitted for.
C15_ClosedOnce ==
    [][\A s \in DOMAIN sources' :
           /\ Cardinality(NoticesFor(out', s)) <= 1
           /\ s \in notified => NoticesFor(out', s) = {}]_vars

\* C16: when the host cleans up an element that owns a Connection, the
\* transport stored on it is closed, one close notification with reason
\* 'nodeReplaced' is emitted for it, and the element is left without any
\* transport that is connecting or open.
C16_CleanupCloses ==
    last.op = "beforeCleanupElement" /\ last.src # 0 =>
        /\ sources[last.src].readyState = "closed"
        /\ Cardinality(CloseNotices("nodeReplaced")) = 1
        /\ \A i \in CloseNotices("nodeReplaced") :
               out[i].elt = last.elt /\ out[i].src = last.src
        /\ LiveOf(last.elt) = {}

\* the actions of subscribers among the effects of the last operation
SubscriberActions ==
    Effects("htmx:sseBeforeMessage") \cup Effects("swap") \cup Effects("trigger")
        \cup Effects("htmx:sseMessage")

\* C17: when a frame is handed to a subscriber listener and the connection
\* element is no longer in the document, the transport that delivered the frame
\* is closed, a close notification with reason 'nodeMissing' is emitted and no
\* subscriber does anything for that frame (a closed transport delivers no
\* later frame).
C17_ScopeGone ==
    last.op = "message" /\ last.heard # {} /\ ~BodyContains(last.elt) =>
        /\ SubscriberActions = {}
        /\ CloseNotices("nodeMissing") # {}
        /\ sources[last.src].readyState = "closed"

(***************************************************************************)
(* Subscribers whose element is gone.                                      *)
(***************************************************************************)
\* the event types that listeners of element e are attached to on transport s
AttachedTypes(e, s) ==
    UNION { sources[s].listeners[k].types :
              k \in { j \in 1..Len(sources[s].listeners) :
                        sources[s].listeners[j].elt = e } }

\* the last operation handed a frame to a listener of a subscriber that is out
\* of the document, on a Connection whose element is in the document and that
\* the frame does not close
FrameForGone(e) ==
    /\ last.op = "message"
    /\ e \in last.heard
    /\ ~BodyContains(e)
    /\ BodyContains(last.elt)
    /\ ~CloseMatched

\* C18: a subscriber whose element is out of the document does nothing for the
\* frame; the other subscribers are evaluated as usual and the Connection stays
\* open; afterwards no listener of that subscriber is attached to the
\* transport for any event type.
C18_OwnerGone ==
    \A e \in Elts :
        FrameForGone(e) =>
            /\ \A i \in SubscriberActions : out[i].elt # e
            /\ \A x \in last.heard :
                   BodyContains(x) /\ Truthy(dom[x].swap) =>
                       (x \in Evaluated <=> ShouldProcess(dom[x].swap, last.event))
            /\ sources[last.src].readyState = "open"
            /\ AttachedTypes(e, last.src) = {}

(***************************************************************************)
(* Elements without a Connection above them.                               *)
(***************************************************************************)
\* C19: when the host processes an element that carries sse-swap or hx-trigger
\* but no sse-connect, and neither it nor any ancestor has a transport, the
\* operation has no effect on the host (no notification, no error, no
\* transport, no timer) and leaves every transport, with its listeners, and
\* every stored transport as they were.
C19_OrphanIsNoOp ==
    [][/\ last'.op = "afterProcessNode"
       /\ ~Truthy(dom[last'.elt].connect)
       /\ TargetOf(last'.elt) = 0
       => /\ out' = <<>>
          /\ UNCHANGED <<dom, detached, sseEventSource, sources, timers, notified>>]_vars

\* B, outside of S, has just been processed while the Connection of S is open
\* with the listener of A on it
C19_Witness ==
    /\ last.op = "afterProcessNode"
    /\ last.elt = "B"
    /\ TargetOf("B") = 0
    /\ out = <<>>
    /\ sseEventSource["S"] # 0
    /\ sources[sseEventSource["S"]].readyState = "open"
    /\ RegisteredOn("A", sseEventSource["S"])
    /\ \A s \in DOMAIN sources : ~RegisteredOn("B", s)

(***************************************************************************)
(* Reconnect timers.                                                       *)
(***************************************************************************)
\* the pending timers that will reconnect element e
TimersOf(e) == { i \in DOMAIN timers : timers[i].elt = e }

\* C20: no element ever has two reconnect timers pending.
C20_OneTimer == \A e \in Elts : Cardinality(TimersOf(e)) <= 1

(***************************************************************************)
(* Retrying for ever.                                                      *)
(***************************************************************************)
\* C21: every transport error is told to the host, and whenever the n-th
\* transport of the page fails and ends up closed while its element is in the
\* document, a further transport is eventually created, for every n below the
\* bound of the run (so after any number of failures in a row).
C21_AlwaysRetried ==
    /\ [](last.op = "error" => Effects("htmx:sseError") # {})
    /\ \A n \in 1..(MaxAttempts - 1) :
           (FailedAttempt /\ last.src = n) ~> (Len(sources) > n)

\* the timer set by the third failure in a row has fired and created transport 4
C21_Witness ==
    /\ last.op = "timer"
    /\ last.src = 3
    /\ Len(sources) = 4
    /\ sources[4].retryArg = 4
    /\ Effects("createEventSource") # {}

(***************************************************************************)
(* Connection elements inside each other.                                  *)
(***************************************************************************)
\* the elements, from e upwards, that have a transport stored
OwningScopes(e) ==
    { x \in Elts : sseEventSource[x] # 0 /\ (x = e \/ IsBelow(dom, {}, e, x)) }

\* the nearest of them, None if there is none
NearestScope(e) ==
    IF OwningScopes(e) = {} THEN None
    ELSE CHOOSE x \in OwningScopes(e) :
             \A y \in OwningScopes(e) : y = x \/ IsBelow(dom, {}, x, y)

\* C22: two elements never have the same transport stored, and a stored
\* transport was created for its element; every listener is on a transport of
\* the nearest element, from its own element upwards, that has a transport
\* stored; and a frame on a transport of element S makes no subscriber act
\* whose nearest such element is another one.
C22_NearestScopeOnly ==
    /\ \A e1, e2 \in Elts :
           sseEventSource[e1] # 0 =>
               /\ sources[sseEventSource[e1]].elt = e1
               /\ e1 # e2 => sseEventSource[e1] # sseEventSource[e2]
    /\ \A s \in DOMAIN sources : \A k \in 1..Len(sources[s].listeners) :
           /\ sources[s].listeners[k].srcElt = sources[s].elt
           /\ NearestScope(sources[s].listeners[k].elt) = sources[s].elt
    /\ last.op = "message" =>
           \A i \in SubscriberActions : NearestScope(out[i].elt) = last.elt

\* a frame on the Connection of the outer S swaps S and leaves B alone, while B
\* is registered on the open Connection of the inner A
C22_Witness ==
    /\ last.op = "message"
    /\ last.elt = "S"
    /\ Evaluated = {"S"}
    /\ sseEventSource["A"] # 0
    /\ sources[sseEventSource["A"]].readyState = "open"
    /\ RegisteredOn("B", sseEventSource["A"])

(***************************************************************************)
(* The three kinds of subscriber and their filters.                        *)
(***************************************************************************)
\* the sse-swap listener of element e went on to the swap
SwapReacts(e) == e \in Evaluated

\* the hx-trigger listener of element e triggered its element
TriggerReacts(e) == \E i \in Effects("trigger") : out[i].elt = e

\* the sse-close listener closed the Connection
CloseReacts == CloseNotices("message") # {}

\* would an sse-close attribute c close the Connection on frame m: the listener
\* exists for a non-empty attribute only
WouldClose(c, m) == Truthy(c) /\ ShouldClose(c, m)

\* the page carries 'id:x' on child A and the bare 'x' on child B
PairOf(x) == dom["A"].swap = IdPrefix \o x /\ dom["B"].swap = x

\* the spelling of the sse-close filter of the page that the page does not use
OtherSpelling(x) == IF dom["S"].close = x THEN IdPrefix \o x ELSE x

\* the three kinds of subscriber decide alike for 'id:x' and for 'x'
SpellingsAgree(x) ==
    /\ SwapReacts("A") <=> SwapReacts("B")
    /\ TriggerReacts("A") <=> TriggerReacts("B")
    /\ CloseReacts <=> WouldClose(OtherSpelling(x), last.event)

\* C23 as claimed: for every value x, the empty value and '*' included, and
\* every frame, a subscriber of any kind with 'id:x' reacts iff the same
\* subscriber with the bare 'x' reacts.
C23_Claimed ==
    \A x \in PairVals : last.op = "message" /\ PairOf(x) => SpellingsAgree(x)

\* the values that are not empty, are not '*' and start with no prefix
PlainVals == {VA, VHi}

\* C23 amended: for every value x that is not empty, is not '*', starts with
\* none of id:, type:, data: and holds no blank or comma, and every frame, a
\* subscriber of any kind (sse-swap, hx-trigger, sse-close) with 'id:x' reacts
\* iff the same subscriber with the bare 'x' reacts.
C23_IdEqualsBare ==
    \A x \in PlainVals : last.op = "message" /\ PairOf(x) => SpellingsAgree(x)

\* a frame with id a on the page with 'id:a' and 'a': both spellings react, in
\* sse-swap and in hx-trigger, and the bare sse-close closes the Connection
C23_Witness ==
    /\ last.op = "message"
    /\ PairOf(VA)
    /\ dom["S"].close = VA
    /\ last.event.id = VA
    /\ SwapReacts("A") /\ SwapReacts("B")
    /\ TriggerReacts("A") /\ TriggerReacts("B")
    /\ CloseReacts

\* the expressions with an unknown prefix, empty filters, stray commas and
\* blanks, whose filters are compared with the id or the type of the frame
OddExprs ==
    { VA \o <<Comma>> \o VHi, <<Blank>> \o VA \o <<Blank>>, VXColonA,
      VA \o <<Comma, Comma>> \o VHi, <<Comma>>, TypePrefix, TypePrefix \o TPing }

\* C24: whatever the filter expression (an unknown prefix, empty filters, stray
\* commas, a prefix without a value) and whatever the frame, the dispatch of
\* the frame (and of the open event, which the listeners hear as well) ends without an error notification and without a reconnect timer,
\* the Connection stays open unless its sse-close filter matched, every
\* sse-swap subscriber stays attached, and the subscriber has its answer: an
\* unknown prefix is read as a bare id and an empty filter as the empty id.
C24_NeverFails ==
    last.op \in {"open", "message"} =>
        /\ Effects("htmx:sseError") = {}
        /\ Effects("setTimeout") = {}
        /\ timers = <<>>
        /\ sources[last.src].readyState = IF CloseReacts THEN "closed" ELSE "open"
        /\ ~CloseReacts =>
              \A e \in {"A", "B"} : Truthy(dom[e].swap) => ListensTo(e, last.src, TMessage)
        /\ last.op = "message" /\ dom["A"].swap \in OddExprs =>
              LET toks == Split(dom["A"].swap)
              IN  SwapReacts("A") <=>
                      \E i \in DOMAIN toks : TokenMatches(Trim(toks[i]), last.event)

\* sse-swap="a,,hi" and a frame without an id: the empty filter of the list
\* matches it, and the Connection stays open
C24_Witness ==
    /\ last.op = "message"
    /\ dom["A"].swap = VA \o <<Comma, Comma>> \o VHi
    /\ last.event.id = <<>>
    /\ SwapReacts("A")
    /\ sources[last.src].readyState = "open"
    /\ ListensTo("A", last.src, TMessage)

\* the values written after data: in the filters of the pages
DataVals == {<<>>, VHi}

\* C25: a subscriber of any kind whose filter is 'data:v' reacts to a frame iff
\* the data of the frame contains v; with an empty v it reacts to every frame,
\* the frames with empty data included.
C25_DataSubstring ==
    \A v \in DataVals :
        last.op = "message" /\ dom["A"].swap = DataPrefix \o v /\ dom["S"].close = DataPrefix \o v
        => /\ SwapReacts("A") <=> Contains(last.event.data, v)
           /\ TriggerReacts("A") <=> Contains(last.event.data, v)
           /\ CloseReacts <=> Contains(last.event.data, v)

\* C26: a subscriber whose filter is the empty string or only blanks reacts to
\* every frame, as the subscriber next to it whose filter is '*' does.
C26_EmptyIsWildcard ==
    last.op = "message" /\ dom \in EmptyPages =>
        /\ SwapReacts("B")
        /\ SwapReacts("A")
        /\ dom["A"].triggers # <<>> => TriggerReacts("A")

\* the children of the page that carry in sse-swap the very text of the
\* sse-close attribute of the page
SameExprAsClose == { e \in {"A", "B"} : dom["S"].close # NoAttr /\ dom[e].swap = dom["S"].close }

\* C27: with one filter expression e in sse-swap, in hx-trigger and in
\* sse-close, the three subscribers agree on every frame: the sse-swap
\* subscriber reacts iff the sse-close subscriber closes the Connection iff the
\* hx-trigger subscriber triggers, for lists, blanks and the empty string too.
C27_OneMatcher ==
    last.op = "message" =>
        \A e \in SameExprAsClose :
            /\ SwapReacts(e) <=> CloseReacts
            /\ dom[e].triggers # <<>> => (TriggerReacts(e) <=> CloseReacts)

(***************************************************************************)
(* Subscribers of one Connection do not depend on each other.              *)
(***************************************************************************)
\* the swaps and the triggers that element e did in the last operation
SwapsOf(e) == { i \in Effects("swap") : out[i].elt = e }
TriggersOf(e) == { i \in Effects("trigger") : out[i].elt = e }

\* element e is in the document and its listener was called with the frame
CalledAndPresent(e) == e \in last.heard /\ BodyContains(e)

\* C28: every subscriber that is in the document, is called with the frame and
\* matches it runs its action, whatever happens to the other subscribers of the
\* Connection (a veto of their before-message notification, their element
\* gone): an sse-swap subscriber the host does not veto swaps the data of the
\* frame, an hx-trigger subscriber triggers its element.
C28_Independent ==
    last.op = "message" =>
        \A e \in Elts : CalledAndPresent(e) =>
            /\ Truthy(dom[e].swap) /\ ShouldProcess(dom[e].swap, last.event) /\ e \notin last.veto
               => \E i \in SwapsOf(e) : out[i].data = last.event.data
            /\ \A t \in DOMAIN dom[e].triggers :
                   ShouldTrigger(Substring(dom[e].triggers[t], 4), last.event)
                   => \E i \in TriggersOf(e) : out[i].data = dom[e].triggers[t]

\* the host vetoed A and B swapped
VetoOfOther ==
    /\ last.veto = {"A"}
    /\ "A" \in Evaluated
    /\ SwapsOf("A") = {}
    /\ SwapsOf("B") # {}

\* A is gone, its listener was called and did nothing, and B triggered
GoneOther ==
    /\ "A" \in detached
    /\ "A" \in last.heard
    /\ SwapsOf("A") = {}
    /\ TriggersOf("B") # {}

C28_Witness == last.op = "message" /\ last.event.id = VA /\ (VetoOfOther \/ GoneOther)

(***************************************************************************)
(* Evaluating a filter.                                                    *)
(***************************************************************************)
\* the answer of every subscriber that is called with the frame is the one its
\* filter and the frame give, in any state of the Connection
AnswerByFilterAndFrame ==
    last.op = "message" =>
        \A e \in Elts : CalledAndPresent(e) =>
            /\ Truthy(dom[e].swap) =>
                  (SwapReacts(e) <=> ShouldProcess(dom[e].swap, last.event))
            /\ TriggerReacts(e) <=>
                  \E t \in DOMAIN dom[e].triggers :
                      ShouldTrigger(Substring(dom[e].triggers[t], 4), last.event)

\* a frame was dispatched, every listener called with it belongs to an element
\* in the document, and no transport was closed
EvaluationOnly ==
    /\ last'.op = "message"
    /\ \A e \in last'.heard : BodyContains(e)
    /\ \A i \in DOMAIN out' : out'[i].ev # "close"

\* C29: the answer of a filter to a frame depends on the filter and the frame
\* only (the same in every state of the Connection and of the subscribers), and
\* evaluating the filters changes no Connection, no subscriber and no retry
\* state: a dispatch in which no listener is removed for a gone element and no
\* sse-close filter matches leaves the transports, their listeners, the retry
\* counters and the timers as they were.
C29_PureEvaluation ==
    /\ []AnswerByFilterAndFrame
    /\ [][EvaluationOnly => UNCHANGED <<sseEventSource, sources, timers>>]_vars

\* on a transport made by a reconnect, A (filter 'a') is called with a frame
\* without an id and does not react, while '*' on B reacts
C29_Witness ==
    /\ last.op = "message"
    /\ last.arg > 0
    /\ CalledAndPresent("A")
    /\ last.event.id = <<>>
    /\ ~SwapReacts("A")
    /\ SwapReacts("B")
    /\ sources[last.src].readyState = "open"

(***************************************************************************)
(* The ID-only extension and the bare values.                              *)
(***************************************************************************)
\* the filters of the list are all bare values: none is '*' and none starts
\* with id:, type: or data:
IsBareList(attr) ==
    LET toks == Split(attr)
    IN  \A i \in DOMAIN toks :
            /\ Trim(toks[i]) # Star
            /\ ~StartsWith(Trim(toks[i]), IdPrefix)
            /\ ~StartsWith(Trim(toks[i]), TypePrefix)
            /\ ~StartsWith(Trim(toks[i]), DataPrefix)

\* the registered sse-swap children whose list holds bare values only
BareSubscribers ==
    { e \in {"A", "B"} : Truthy(dom[e].swap) /\ IsBareList(dom[e].swap) }

\* the id of the frame is one of the trimmed values of the list
IdListed(attr, m) == \E i \in DOMAIN Split(attr) : m.id = Trim(Split(attr)[i])

\* C30 as claimed: for a list of bare values and every frame, the subscriber
\* goes on to the swap iff the ID-only extension would, that is iff the id of
\* the frame is one of the trimmed values of the list.
C30_Claimed ==
    last.op = "message" =>
        \A e \in BareSubscribers :
            /\ SwapReacts(e) <=> LegacyFires(dom[e].swap, last.event)
            /\ SwapReacts(e) <=> IdListed(dom[e].swap, last.event)

\* C30 amended: for a list of bare values that is not blank, and every frame
\* of the default type 'message', the subscriber goes on to the swap iff the
\* ID-only extension would, that is iff the id of the frame is one of the
\* trimmed values of the list; for a frame of the pre-subscribed type ping the
\* ID-only extension never does, and the subscriber does iff the id of the
\* frame is one of the trimmed values.
C30_LegacyOnMessage ==
    last.op = "message" =>
        \A e \in BareSubscribers : Trim(dom[e].swap) # <<>> =>
            /\ SwapReacts(e) <=> IdListed(dom[e].swap, last.event)
            /\ last.event.type = TMessage =>
                  (SwapReacts(e) <=> LegacyFires(dom[e].swap, last.event))
            /\ last.event.type = TPing => ~LegacyFires(dom[e].swap, last.event)

\* sse-swap=" a " and a frame of type message with id a: both extensions go on
\* to the swap
C30_Witness ==
    /\ last.op = "message"
    /\ dom["A"].swap = <<Blank>> \o VA \o <<Blank>>
    /\ last.event.type = TMessage
    /\ last.event.id = VA
    /\ SwapReacts("A")
    /\ LegacyFires(dom["A"].swap, last.event)

(***************************************************************************)
(* The content of a swap.                                                  *)
(***************************************************************************)
\* htmx.transformSSEData as the page overrides it: the data of a frame of type
\* notification is wrapped, the data of the other frames is returned unchanged
transformSSEData(data, type) ==
    IF type = TNotification THEN <<"<">> \o data \o <<">">> ELSE data

\* C31: the content of every swap is the data of the frame, transformed by
\* htmx.transformSSEData when the frame has a named type, and unchanged when
\* it has the default type.
C31_TransformBeforeSwap ==
    last.op = "message" =>
        \A i \in Effects("swap") :
            out[i].data = IF last.event.type = TMessage THEN last.event.data
                          ELSE transformSSEData(last.event.data, last.event.type)

(***************************************************************************)
(* The order of the subscribers after a reconnect.                         *)
(***************************************************************************)
\* C32: B was registered before A; for every frame both match, on the first
\* transport and on every transport made by a reconnect, the swap of B comes
\* before the swap of A.
C32_OrderKept ==
    last.op = "message" =>
        \A i, j \in Effects("swap") : out[i].elt = "B" /\ out[j].elt = "A" => i < j

(***************************************************************************)
(* The action of an hx-trigger subscriber.                                 *)
(***************************************************************************)
\* the elements that subscribe with hx-trigger only
TriggerOnly == { e \in Elts : dom[e].triggers # <<>> /\ ~Truthy(dom[e].swap) }

\* C33: every trigger of an hx-trigger subscriber carries a trigger of the
\* element as it is written in hx-trigger (the sse: prefix included) and is
\* followed at once by the after-message notification of the same listener
\* with the data of the frame; an element that subscribes with hx-trigger only
\* gets no before-message notification, and its trigger happens whatever the
\* host vetoes.
C33_TriggerSequence ==
    last.op = "message" =>
        /\ \A i \in Effects("trigger") :
               /\ \E t \in DOMAIN dom[out[i].elt].triggers :
                      out[i].data = dom[out[i].elt].triggers[t]
               /\ i < Len(out)
               /\ out[i + 1].ev = "htmx:sseMessage"
               /\ SameListener(i, i + 1)
               /\ out[i + 1].data = last.event.data
        /\ \A e \in TriggerOnly :
               /\ e \notin Evaluated
               /\ CalledAndPresent(e) =>
                     \A t \in DOMAIN dom[e].triggers :
                         ShouldTrigger(Substring(dom[e].triggers[t], 4), last.event)
                         => \E i \in TriggersOf(e) : out[i].data = dom[e].triggers[t]

\* hx-trigger="sse:a" on B and a frame with id a, while the host vetoes the
\* swap of A: B is triggered with 'sse:a' and then gets the after-message
\* notification
C33_Witness ==
    /\ last.op = "message"
    /\ last.event.id = VA
    /\ last.veto = {"A"}
    /\ "B" \in TriggerOnly
    /\ \E i \in TriggersOf("B") :
          /\ out[i].data = SsePrefix \o VA
          /\ i < Len(out)
          /\ out[i + 1].ev = "htmx:sseMessage"
          /\ out[i + 1].elt = "B"

(***************************************************************************)
(* The id and the type of a frame.                                         *)
(***************************************************************************)
\* the frame with a missing or empty type set to 'message' and a missing id
\* set to the empty string
Normal(frame) ==
    [id |-> IF frame.id = NoAttr THEN <<>> ELSE frame.id,
     type |-> IF frame.type \in {NoAttr, <<>>} THEN TMessage ELSE frame.type,
     data |-> frame.data]

\* the answer of an sse-swap attribute to a message whose fields are all set
PlainAnswer(attr, m) ==
    \/ attr = Star
    \/ Trim(attr) = <<>>
    \/ \E i \in DOMAIN Split(attr) : TokenMatches(Trim(Split(attr)[i]), m)

\* C34: the filters are evaluated against a message with a type and an id:
\* for a frame without an event name the type is 'message', for a frame
\* without an id the id is the empty string, and every subscriber (sse-swap,
\* hx-trigger, sse-close) answers as its filter answers that message.
C34_Normalised ==
    last.op = "message" =>
        LET m == Normal(last.event)
        IN  /\ m.type \notin {NoAttr, <<>>}
            /\ m.id # NoAttr
            /\ \A e \in {"A", "B"} :
                   /\ Truthy(dom[e].swap) => (SwapReacts(e) <=> PlainAnswer(dom[e].swap, m))
                   /\ TriggerReacts(e) <=>
                         \E t \in DOMAIN dom[e].triggers :
                             LET f == Substring(dom[e].triggers[t], 4)
                             IN  f = <<>> \/ TokenMatches(f, m)
            /\ CloseReacts <=> (Truthy(dom["S"].close) /\ TokenMatches(dom["S"].close, m))

\* a frame without event name and without id: 'type:message' reacts to it
C34_Witness ==
    /\ last.op = "message"
    /\ last.event.type = NoAttr
    /\ last.event.id = NoAttr
    /\ dom["A"].swap = TypePrefix \o TMessage
    /\ SwapReacts("A")
    /\ TriggerReacts("A")
    /\ CloseReacts

(***************************************************************************)
(* The empty token.                                                        *)
(***************************************************************************)
\* the attribute is written and each of its tokens is the empty string
EmptyTokenOnly(attr) ==
    attr # NoAttr /\ \A i \in DOMAIN Split(attr) : Split(attr)[i] = <<>>

\* the element carries the hx-trigger 'sse:' with nothing after the prefix
EmptyTrigger(e) == \E t \in DOMAIN dom[e].triggers : dom[e].triggers[t] = SsePrefix

\* the sse-swap part of C35, for the lists that have a comma
C35_SwapList ==
    last.op = "message" =>
        \A e \in {"A", "B"} :
            EmptyTokenOnly(dom[e].swap) /\ dom[e].swap # <<>>
            => (SwapReacts(e) <=> last.event.id = <<>>)

\* C35: an empty token matches the frames whose id is empty and no other
\* frame, in sse-swap, in hx-trigger ('sse:') and in sse-close alike.
C35_EmptyTokenIsEmptyId ==
    last.op = "message" =>
        /\ \A e \in {"A", "B"} :
               /\ EmptyTokenOnly(dom[e].swap) => (SwapReacts(e) <=> last.event.id = <<>>)
               /\ EmptyTrigger(e) => (TriggerReacts(e) <=> last.event.id = <<>>)
        /\ EmptyTokenOnly(dom["S"].close) => (CloseReacts <=> last.event.id = <<>>)

(***************************************************************************)
(* One action per subscriber and frame.                                    *)
(***************************************************************************)
\* C36: for one frame every sse-swap subscriber replaces the content of its
\* element at most once, and every hx-trigger subscriber triggers its element
\* at most once for each of its sse: triggers.
C36_AtMostOnce ==
    last.op = "message" =>
        \A e \in Elts :
            /\ Cardinality(SwapsOf(e)) <= 1
            /\ Cardinality(TriggersOf(e)) <= Len(dom[e].triggers)

(***************************************************************************)
(* The open and error signals of the transport.                            *)
(***************************************************************************)
\* C37: when the transport signals that it opened or that it failed, no
\* subscriber swaps, none triggers its element, and the sse-close listener
\* does not close the Connection.
C37_FramesOnly ==
    last.op \in {"open", "error"} =>
        /\ Effects("swap") = {}
        /\ Effects("trigger") = {}
        /\ ~CloseReacts

(***************************************************************************)
(* Transports and the document.                                            *)
(***************************************************************************)
\* C38: every step that creates a transport creates it for an element that is
\* in the document; the callback of the reconnect timer creates none for an
\* element removed while the timer was pending.
C38_NoTransportForAbsentScope ==
    [][Len(sources') > Len(sources)
       => \A s \in (Len(sources) + 1)..Len(sources') :
              IsPresent(dom', detached', sources'[s].elt)]_vars

(***************************************************************************)
(* After the close.                                                        *)
(***************************************************************************)
\* C39: no subscriber of a transport swaps or triggers after source.close()
\* was called on that transport: in the step that closes it every swap and
\* trigger of its subscribers comes before the close, and no later step holds
\* a swap or a trigger of a transport that was closed on request.
C39_NoActionAfterClose ==
    /\ \A i \in Effects("close") :
           \A j \in Effects("swap") \cup Effects("trigger") :
               out[j].src = out[i].src => j < i
    /\ \A j \in Effects("swap") \cup Effects("trigger") :
           Effects("close") = {} => out[j].src \notin notified

====
